---- MODULE Spec2Model ----
(***************************************************************************)
(* Host side of the instruction-count tool (src/instr_count.cu): the       *)
(* launch entry/exit callbacks, the activation window, the set of already  *)
(* instrumented functions and the running totals, with several host        *)
(* threads issuing launches and a device that runs kernels asynchronously. *)
(***************************************************************************)
EXTENDS Integers, Sequences, FiniteSets, TLC

(* ------------------------------ bounds --------------------------------- *)
NumThreads == 2
MaxLaunches == 3
MaxCount == 1
MaxInstrs == 3

Threads == 1..NumThreads

(* ----------------------- the launched program -------------------------- *)
(* Two kernels; K1 calls D1 and D2, K2 calls D1 (a shared callee). *)
Kernels == {"K1", "K2"}
Functions == {"K1", "K2", "D1", "D2"}

nvbit_get_related_functions(func) ==
    IF func = "K1" THEN <<"D1", "D2">> ELSE <<"D1">>

(* The seven callback ids the interceptor treats as launch events. *)
LaunchCbids == {"cuLaunch", "cuLaunchKernel_ptsz", "cuLaunchGrid",
                "cuLaunchGridAsync", "cuLaunchKernel", "cuLaunchKernelEx",
                "cuLaunchKernelEx_ptsz"}

(* Thread-block counts <<x, y, z>> a launch of each variant can carry:     *)
(* cuLaunch starts a 1 x 1 grid, cuLaunchGrid(Async) a width x height one. *)
GridDims(cbid) ==
    IF cbid = "cuLaunch" THEN {<<1, 1, 1>>}
    ELSE IF cbid \in {"cuLaunchGrid", "cuLaunchGridAsync"} THEN {<<2, 3, 1>>}
    ELSE {<<2, 3, 2>>}

LaunchParams ==
    UNION {[cbid : {c}, f : Kernels, grid : GridDims(c)] : c \in LaunchCbids}

NoParams == [cbid |-> "none", f |-> "none", grid |-> <<0, 0, 0>>]

(* What the entry branch reads of the parameters: the launched function. *)
EntryParams(p) == [NoParams EXCEPT !.f = p.f]

(* Configurations read by nvbit_at_init:                                   *)
(* <<active_from_start, start_grid_num, end_grid_num>>.                    *)
END_GRID_DEFAULT == 2147483647
Configs == {<<1, 0, END_GRID_DEFAULT>>, <<1, 1, 2>>, <<0, 1, 2>>}

DefaultConfig == <<1, 0, END_GRID_DEFAULT>>

(* --------------------- names, instructions, files ---------------------- *)
(* A C string pointer: NULL or a string. *)
NULL == [null |-> TRUE]
CStr(str) == [null |-> FALSE, s |-> str]

(* The string of n characters c. *)
RECURSIVE Repeat(_, _)
Repeat(c, n) ==
    IF n = 0 THEN ""
    ELSE IF n % 2 = 0 THEN LET half == Repeat(c, n \div 2) IN half \o half
    ELSE c \o Repeat(c, n - 1)

(* char truncated_name[201]; char sass_filename[256]; *)
TRUNCATED_NAME_SIZE == 201
SASS_FILENAME_SIZE == 256

(* Result of nvbit_get_line_info for an instruction: has is the returned   *)
(* bool, file and dir the two strings, line the line number.               *)
NoLineInfo == [has |-> FALSE, file |-> NULL, dir |-> NULL, line |-> 0]
LineInfo(dir, file, line) ==
    [has |-> TRUE, file |-> file, dir |-> dir, line |-> line]

(* The cases of line information an instruction can have. *)
LineInfoCases ==
    << NoLineInfo,
       LineInfo(NULL, NULL, 7),
       LineInfo(CStr("src"), CStr(""), 7),
       LineInfo(NULL, CStr("a.cu"), 7),
       LineInfo(CStr(""), CStr("a.cu"), 7),
       LineInfo(CStr("src"), CStr("a.cu"), 7),
       LineInfo(CStr("src"), CStr("a.cu"), 8) >>

(* Mangled names as the compiler writes them; no two functions share one.  *)
ShortNames ==
    [f \in Functions |-> CStr("_Z2" \o f \o "v")]

(* K2's name fills the buffer exactly, K1's is one character longer.       *)
BoundaryNames ==
    [ShortNames EXCEPT !["K2"] = CStr(Repeat("k", TRUNCATED_NAME_SIZE - 1)),
                       !["K1"] = CStr(Repeat("q", TRUNCATED_NAME_SIZE))]

(* Two instances of one template: D1 and D2 differ after the 200th         *)
(* character only.                                                         *)
TemplateNames ==
    [ShortNames EXCEPT
        !["D1"] = CStr(Repeat("t", TRUNCATED_NAME_SIZE - 1) \o "IfEvv"),
        !["D2"] = CStr(Repeat("t", TRUNCATED_NAME_SIZE - 1) \o "IdEvv")]

(* Per function, the line-information case of each of its instructions:   *)
(* a kernel has a located instruction followed by one without information, *)
(* a device function a single located instruction.                        *)
DefaultInstrs ==
    [f \in Functions |-> IF f \in Kernels THEN <<6, 1>> ELSE <<4>>]

(* A program and a file system: <<names, instructions, unopenable names>>. *)
DefaultEnv == <<ShortNames, DefaultInstrs, {}>>

(* Instruction lists of at most MaxInstrs instructions, by case. *)
InstrLists ==
    UNION {[1..n -> DOMAIN LineInfoCases] : n \in 0..MaxInstrs}

(* ------------------------------- state --------------------------------- *)
VARIABLES
    kernel_id,            \* uint32_t kernel_id
    tot_app_instrs,       \* uint64_t tot_app_instrs
    counter,              \* __managed__ uint64_t counter
    start_grid_num,
    end_grid_num,
    active_from_start,
    active_region,
    mutex,                \* thread owning the pthread mutex, 0 when unlocked
    already_instrumented, \* std::unordered_set<CUfunction>
    inspected,            \* per function: runs of the loop body after insert
    injected,             \* functions for which nvbit_insert_call was requested
    enabled,              \* per function: last nvbit_enable_instrumented choice
    pc,                   \* per thread: position in its launch
    entry_log,            \* per thread: steps its entry callback has done
    cur,                  \* per thread: parameters of its launch callback
    num_ctas,             \* int num_ctas of the latest exit callback
    running,              \* threads whose kernel is executing on the device
    launched,             \* code path of each dispatched kernel, in order
    reports,              \* lines printed at launch exit, in order
    lastSignal,           \* last profiler signal delivered (exit callback)
    final_total,          \* number printed by nvbit_at_term, -1 before
    aborted,              \* CUDA_SAFECALL ended the process
    func_name,            \* per function: what nvbit_get_func_name returns
    func_instrs,          \* per function: line-information case of each instruction
    unopenable,           \* file names for which fopen(name, "w") fails
    sass_files,           \* file system: per file its name and the function
                          \* whose dump wrote it
    dump_errors,          \* file names of the "Could not create" messages
    acquisitions,         \* history: number of lock acquisitions so far
    obs,                  \* history, per thread: what its entry observed
    dev_count,            \* history: device additions of the current launch
    exit_log              \* history: one record per report, in order

vars == <<kernel_id, tot_app_instrs, counter, start_grid_num, end_grid_num,
          active_from_start, active_region, mutex, already_instrumented,
          inspected, injected, enabled, pc, entry_log, cur, num_ctas, running,
          launched, reports, lastSignal, final_total, aborted,
          func_name, func_instrs, unopenable, sass_files, dump_errors,
          acquisitions, obs, dev_count, exit_log>>

(* What the entry of a launch observed: its rank among the lock           *)
(* acquisitions, kernel_id when the lock was granted, and the kernel_id    *)
(* read by the window test (-1: not read).                                 *)
NoObs == [ticket |-> 0, at_lock |-> -1, seen |-> -1]

config == <<start_grid_num, end_grid_num, active_from_start>>
dumpenv == <<func_name, func_instrs, unopenable>>

(* nvbit_at_init with configuration c, in the environment e: the state    *)
(* once the tool is loaded.                                                *)
InitState(c, e) ==
    /\ kernel_id = 0
    /\ tot_app_instrs = 0
    /\ counter = 0
    /\ active_from_start = c[1]
    /\ start_grid_num = c[2]
    /\ end_grid_num = c[3]
    /\ active_region = (c[1] # 0)
    /\ func_name = e[1]
    /\ func_instrs = e[2]
    /\ unopenable = e[3]
    /\ sass_files = {}
    /\ dump_errors = <<>>
    /\ acquisitions = 0
    /\ obs = [t \in Threads |-> NoObs]
    /\ dev_count = 0
    /\ exit_log = <<>>
    /\ mutex = 0
    /\ already_instrumented = {}
    /\ inspected = [f \in Functions |-> 0]
    /\ injected = {}
    /\ enabled = [f \in Functions |-> "unset"]
    /\ pc = [t \in Threads |-> "idle"]
    /\ entry_log = [t \in Threads |-> <<>>]
    /\ cur = [t \in Threads |-> NoParams]
    /\ num_ctas = 0
    /\ running = {}
    /\ launched = <<>>
    /\ reports = <<>>
    /\ lastSignal = "none"
    /\ final_total = -1
    /\ aborted = FALSE

Init == \E c \in Configs : InitState(c, DefaultEnv)

Alive == ~aborted /\ final_total = -1

Issued == Len(reports) + Cardinality({t \in Threads : pc[t] # "idle"})

(* ------------------------ instrumentation cache ------------------------ *)
(* Faulty variant of InsertIsNew: the result of the insert is not tested. *)
InsertIsNew_Always(set, f) == TRUE

(* already_instrumented.insert(f).second *)
InsertIsNew(set, f) == f \notin set

(* ------------------------------ SASS dump ------------------------------ *)
(* The instructions of f: getIdx, getOffset and getSass of each. *)
nvbit_get_instrs(f) ==
    [i \in 1..Len(func_instrs[f]) |->
        [idx |-> i - 1, offset |-> 16 * (i - 1), sass |-> "NOP"]]

(* The line information of the instruction of f at offset. *)
nvbit_get_line_info(f, offset) ==
    LineInfoCases[func_instrs[f][(offset \div 16) + 1]]

(* snprintf(buffer, size, "%s", text): at most size - 1 characters *)
Snprintf(text, size) ==
    IF Len(text) > size - 1 THEN SubSeq(text, 1, size - 1) ELSE text

(* The contents of truncated_buffer after the call. *)
truncate_mangled_name(mangled_name, truncated_buffer, buffer_size) ==
    IF buffer_size = 0 THEN truncated_buffer
    ELSE IF mangled_name.null THEN Snprintf("unknown_kernel", buffer_size)
    ELSE LET max_length == buffer_size - 1
             name_len == Len(mangled_name.s)
         IN IF name_len > max_length
            THEN SubSeq(mangled_name.s, 1, max_length)
            ELSE mangled_name.s

(* snprintf(sass_filename, sizeof(sass_filename), "%s.sass", truncated_name) *)
SassFilename(mangled_name) ==
    Snprintf(truncate_mangled_name(mangled_name, "", TRUNCATED_NAME_SIZE)
                 \o ".sass",
             SASS_FILENAME_SIZE)

(* The source_location string of an instruction. *)
SourceLocation(info) ==
    IF info.has /\ ~info.file.null /\ info.file.s # ""
    THEN LET file_path == IF ~info.dir.null /\ info.dir.s # ""
                          THEN info.dir.s \o "/" \o info.file.s
                          ELSE info.file.s
         IN file_path \o ":" \o ToString(info.line)
    ELSE "unknown"

(* Faulty variant of HeaderNeeded: every instruction gets a header. *)
HeaderNeeded_Always(source_location, last_source_location) == TRUE

(* if (source_location != last_source_location) *)
HeaderNeeded(source_location, last_source_location) ==
    source_location # last_source_location

InstrLine(instr) == <<"instr", instr.idx, instr.offset, instr.sass>>

(* The loop over instrs, from the i-th instruction on. *)
RECURSIVE ListingLines(_, _, _, _)
ListingLines(f, instrs, i, last_source_location) ==
    IF i > Len(instrs) THEN <<>>
    ELSE LET source_location ==
                 SourceLocation(nvbit_get_line_info(f, instrs[i].offset))
         IN IF HeaderNeeded(source_location, last_source_location)
            THEN <<<<"source", source_location>>, InstrLine(instrs[i])>>
                     \o ListingLines(f, instrs, i + 1, source_location)
            ELSE <<InstrLine(instrs[i])>>
                     \o ListingLines(f, instrs, i + 1, last_source_location)

(* Everything written between fopen and fclose. *)
SassFileLines(f, mangled_name, instrs) ==
    <<<<"kernel", mangled_name.s>>, <<"format">>>>
        \o ListingLines(f, instrs, 1, "")

(* fopen(sass_filename, "w") returns a stream. *)
Fopen(sass_filename) == sass_filename \notin unopenable

(* The file system after name was opened with "w", written by the dump    *)
(* of f and closed: a file of that name is replaced.                       *)
WriteFile(files, name, f) ==
    {file \in files : file.name # name} \cup {[name |-> name, func |-> f]}

(* The lines of a file: what the dump that wrote it printed. *)
FileLines(file) ==
    SassFileLines(file.func, func_name[file.func], nvbit_get_instrs(file.func))

(* The dump of one newly inserted function. *)
DumpSass(f, files, errs) ==
    LET mangled_name == func_name[f] IN
    IF mangled_name.null THEN [files |-> files, errs |-> errs, opened |-> TRUE]
    ELSE LET sass_filename == SassFilename(mangled_name) IN
         IF Fopen(sass_filename)
         THEN [files |-> WriteFile(files, sass_filename, f),
               errs |-> errs, opened |-> TRUE]
         ELSE [files |-> files, errs |-> Append(errs, sass_filename),
               opened |-> FALSE]

(* Faulty variant of AfterOpenFailure: a failed fopen ends the loop. *)
AfterOpenFailure_Stop(rest) == <<>>

(* After the "Could not create" message the loop goes on with the rest. *)
AfterOpenFailure(rest) == rest

(* The loop of instrument_function_if_needed over related_functions: the   *)
(* body after the insert only dumps the listing; no call is injected.      *)
RECURSIVE InstrumentLoop(_, _, _, _, _)
InstrumentLoop(fs, set, insp, files, errs) ==
    IF fs = <<>>
    THEN [set |-> set, insp |-> insp, files |-> files, errs |-> errs]
    ELSE LET f == Head(fs) IN
         IF ~InsertIsNew(set, f)
         THEN InstrumentLoop(Tail(fs), set, insp, files, errs)
         ELSE LET d == DumpSass(f, files, errs) IN
              InstrumentLoop(IF d.opened THEN Tail(fs)
                             ELSE AfterOpenFailure(Tail(fs)),
                             set \cup {f}, [insp EXCEPT ![f] = @ + 1],
                             d.files, d.errs)

instrument_function_if_needed(func, set, insp, files, errs) ==
    InstrumentLoop(Append(nvbit_get_related_functions(func), func), set, insp,
                   files, errs)

(* --------------------------- launch entry ------------------------------ *)
(* The entry callback of a launch is invoked and reaches pthread_mutex_lock. *)
(* Nothing reads the parameters of a blocked call, so they are drawn when   *)
(* the lock is granted; the entry branch reads the function only, and the   *)
(* variant and the grid are read by the exit branch.                        *)
LaunchEntry(t) ==
    /\ Alive
    /\ pc[t] = "idle"
    /\ Issued < MaxLaunches
    /\ pc' = [pc EXCEPT ![t] = "lock"]
    /\ UNCHANGED <<kernel_id, tot_app_instrs, counter, config, active_region,
                   mutex, already_instrumented, inspected, injected, enabled,
                   cur, running, launched, reports, lastSignal, final_total,
                   aborted, num_ctas, entry_log,
                   dumpenv, sass_files, dump_errors, acquisitions, obs,
                   dev_count, exit_log>>

(* Faulty variant of MutexFree: the lock never blocks. *)
MutexFree_NoLock == TRUE

MutexFree == mutex = 0

(* Faulty variant of EntryStepAfter: the counter is reset before the path is chosen. *)
EntryStepAfter_ResetEarly(step) ==
    CASE step = "lock" -> "window"
      [] step = "window" -> "reset"
      [] step = "reset" -> "enable"
      [] step = "enable" -> "run"

(* Statement order of the entry branch: the position that follows each one. *)
EntryStepAfter(step) ==
    CASE step = "lock" -> "window"
      [] step = "window" -> "enable"
      [] step = "enable" -> "reset"
      [] step = "reset" -> "run"

(* pthread_mutex_lock returns, then instrument_function_if_needed runs. *)
Acquire(t) ==
    /\ Alive
    /\ pc[t] = "lock"
    /\ MutexFree
    /\ mutex' = t
    /\ acquisitions' = acquisitions + 1
    /\ obs' = [obs EXCEPT ![t] = [ticket |-> acquisitions', at_lock |-> kernel_id,
                                  seen |-> -1]]
    /\ \E p \in LaunchParams :
          /\ cur' = [cur EXCEPT ![t] = EntryParams(p)]
          /\ LET r == instrument_function_if_needed(p.f, already_instrumented,
                                                    inspected, sass_files,
                                                    dump_errors)
             IN /\ already_instrumented' = r.set
                /\ inspected' = r.insp
                /\ sass_files' = r.files
                /\ dump_errors' = r.errs
    /\ pc' = [pc EXCEPT ![t] = EntryStepAfter("lock")]
    /\ entry_log' = [entry_log EXCEPT ![t] = Append(@, "instrument")]
    /\ UNCHANGED <<kernel_id, tot_app_instrs, counter, config, active_region,
                   injected, enabled, running, launched, reports,
                   lastSignal, final_total, aborted, num_ctas,
                   dumpenv, dev_count, exit_log>>

(* Faulty variant of InWindow: the end of the interval is included. *)
InWindow_EndIncluded(kid) == kid >= start_grid_num /\ kid <= end_grid_num

InWindow(kid) == kid >= start_grid_num /\ kid < end_grid_num

(* Faulty variant of EagerMode: the window is recomputed in either mode. *)
EagerMode_Always == TRUE

(* if (active_from_start) at launch entry *)
EagerMode == active_from_start # 0

(* Faulty variant of GatedMode: the profiler branches ignore the mode. *)
GatedMode_Always == TRUE

(* if (!active_from_start) in the profiler branches *)
GatedMode == active_from_start = 0

(* if (active_from_start) active_region = in-window test *)
EvalWindow(t) ==
    /\ Alive
    /\ pc[t] = "window"
    /\ active_region' = IF EagerMode THEN InWindow(kernel_id)
                        ELSE active_region
    /\ obs' = [obs EXCEPT ![t].seen = IF EagerMode THEN kernel_id ELSE -1]
    /\ pc' = [pc EXCEPT ![t] = EntryStepAfter("window")]
    /\ entry_log' = [entry_log EXCEPT ![t] = Append(@, "window")]
    /\ UNCHANGED <<kernel_id, tot_app_instrs, counter, config, mutex,
                   already_instrumented, inspected, injected, enabled, cur,
                   running, launched, reports, lastSignal, final_total,
                   aborted, num_ctas,
                   dumpenv, sass_files, dump_errors, acquisitions,
                   dev_count, exit_log>>

PathFor(region) == IF region THEN "instrumented" ELSE "original"

(* nvbit_enable_instrumented(ctx, func, active_region) *)
EnablePath(t) ==
    /\ Alive
    /\ pc[t] = "enable"
    /\ enabled' = [enabled EXCEPT ![cur[t].f] = PathFor(active_region)]
    /\ pc' = [pc EXCEPT ![t] = EntryStepAfter("enable")]
    /\ entry_log' = [entry_log EXCEPT ![t] = Append(@, "enable")]
    /\ UNCHANGED <<kernel_id, tot_app_instrs, counter, config, active_region,
                   mutex, already_instrumented, inspected, injected, cur,
                   running, launched, reports, lastSignal, final_total,
                   aborted, num_ctas,
                   dumpenv, sass_files, dump_errors, acquisitions, obs,
                   dev_count, exit_log>>

(* Faulty variant of CounterAtEntry: the counter is not reset. *)
CounterAtEntry_Kept(c) == c

(* counter = 0 *)
CounterAtEntry(c) == 0

(* counter = 0; the entry callback returns. *)
ResetCounter(t) ==
    /\ Alive
    /\ pc[t] = "reset"
    /\ counter' = CounterAtEntry(counter)
    /\ pc' = [pc EXCEPT ![t] = EntryStepAfter("reset")]
    /\ entry_log' = [entry_log EXCEPT ![t] = Append(@, "reset")]
    /\ UNCHANGED <<kernel_id, tot_app_instrs, config, active_region, mutex,
                   already_instrumented, inspected, injected, enabled, cur,
                   running, launched, reports, lastSignal, final_total,
                   aborted, num_ctas,
                   dumpenv, sass_files, dump_errors, acquisitions, obs,
                   dev_count, exit_log>>

(* ------------------------------ device --------------------------------- *)
(* The driver dispatches the kernel with the code path selected for its    *)
(* function, then invokes the exit callback.                               *)
Dispatch(t) ==
    /\ Alive
    /\ pc[t] = "run"
    /\ running' = running \cup {t}
    /\ launched' = Append(launched, enabled[cur[t].f])
    /\ dev_count' = 0
    /\ pc' = [pc EXCEPT ![t] = "sync"]
    /\ UNCHANGED <<kernel_id, tot_app_instrs, counter, config, active_region,
                   mutex, already_instrumented, inspected, injected, enabled,
                   cur, reports, lastSignal, final_total, aborted, num_ctas,
                   entry_log,
                   dumpenv, sass_files, dump_errors, acquisitions, obs, exit_log>>

(* The kernel of thread t executes to completion, adding n to the counter. *)
DeviceRun(t) ==
    /\ Alive
    /\ t \in running
    /\ \E n \in 0..MaxCount :
          /\ counter' = counter + n
          /\ dev_count' = dev_count + n
    /\ running' = running \ {t}
    /\ UNCHANGED <<kernel_id, tot_app_instrs, config, active_region, mutex,
                   already_instrumented, inspected, injected, enabled, pc, cur,
                   launched, reports, lastSignal, final_total, aborted,
                   num_ctas, entry_log,
                   dumpenv, sass_files, dump_errors, acquisitions, obs, exit_log>>

(* ---------------------------- launch exit ------------------------------ *)
(* Faulty variant of DeviceIdle: the exit does not wait for the device. *)
DeviceIdle_NoWait == TRUE

DeviceIdle == running = {}

(* The exit callback of the launch, invoked with the variant and the       *)
(* parameters of the call: cudaDeviceSynchronize returns success once the  *)
(* device is idle.                                                         *)
ExitSync(t) ==
    /\ Alive
    /\ pc[t] = "sync"
    /\ DeviceIdle
    /\ \E p \in LaunchParams :
          /\ p.f = cur[t].f
          /\ cur' = [cur EXCEPT ![t] = p]
    /\ pc' = [pc EXCEPT ![t] = "report"]
    /\ UNCHANGED <<kernel_id, tot_app_instrs, counter, config, active_region,
                   mutex, already_instrumented, inspected, injected, enabled,
                   running, launched, reports, lastSignal, final_total,
                   aborted, num_ctas, entry_log,
                   dumpenv, sass_files, dump_errors, acquisitions, obs,
                   dev_count, exit_log>>

(* Faulty variant of SyncFault: the fault is noted but the exit goes on. *)
SyncFault_GoesOn(t) ==
    /\ Alive
    /\ pc[t] = "sync"
    /\ aborted' = TRUE
    /\ pc' = [pc EXCEPT ![t] = "report"]
    /\ UNCHANGED <<kernel_id, tot_app_instrs, counter, config, active_region,
                   mutex, already_instrumented, inspected, injected, enabled,
                   cur, running, launched, reports, lastSignal,
                   final_total, num_ctas, entry_log,
                   dumpenv, sass_files, dump_errors, acquisitions, obs,
                   dev_count, exit_log>>

(* cudaDeviceSynchronize reports a fault: CUDA_SAFECALL ends the process. *)
SyncFault(t) ==
    /\ Alive
    /\ pc[t] = "sync"
    /\ aborted' = TRUE
    /\ UNCHANGED <<kernel_id, tot_app_instrs, counter, config, active_region,
                   mutex, already_instrumented, inspected, injected, enabled,
                   pc, cur, running, launched, reports, lastSignal,
                   final_total, num_ctas, entry_log,
                   dumpenv, sass_files, dump_errors, acquisitions, obs,
                   dev_count, exit_log>>

(* Faulty variant of Accumulate: the count is assigned, not added. *)
Accumulate_Assign(tot, c) == c

Accumulate(tot, c) == tot + c

(* num_ctas as the exit branch computes it from cbid and the parameters *)
NumCtas(p) ==
    IF p.cbid \in {"cuLaunchKernel_ptsz", "cuLaunchKernel"}
    THEN p.grid[1] * p.grid[2] * p.grid[3]
    ELSE IF p.cbid \in {"cuLaunchKernelEx_ptsz", "cuLaunchKernelEx"}
    THEN p.grid[1] * p.grid[2] * p.grid[3]
    ELSE 0

(* Faulty variant of PrintedOrdinal: pre-increment in the printf argument. *)
PrintedOrdinal_PreIncrement(kid) == kid + 1

PrintedOrdinal(kid) == kid

(* Faulty variant of NextKernelId: the ordinal is not advanced. *)
NextKernelId_Stuck(kid) == kid

NextKernelId(kid) == kid + 1

(* Faulty variant of MutexAfterUnlock: the exit keeps the lock. *)
MutexAfterUnlock_Held(t) == t

(* pthread_mutex_unlock(&mutex) *)
MutexAfterUnlock(t) == 0

(* tot_app_instrs += counter; printf(..., kernel_id++, ...); unlock *)
Report(t) ==
    /\ Alive
    /\ pc[t] = "report"
    /\ tot_app_instrs' = Accumulate(tot_app_instrs, counter)
    /\ num_ctas' = NumCtas(cur[t])
    /\ reports' = Append(reports,
                         [ordinal |-> PrintedOrdinal(kernel_id),
                          count |-> counter,
                          total |-> tot_app_instrs'])
    /\ kernel_id' = NextKernelId(kernel_id)
    /\ mutex' = MutexAfterUnlock(t)
    /\ exit_log' = Append(exit_log, [ticket |-> obs[t].ticket,
                                     seen |-> obs[t].seen,
                                     path |-> enabled[cur[t].f],
                                     dev |-> dev_count])
    /\ obs' = [obs EXCEPT ![t] = NoObs]
    /\ dev_count' = 0
    /\ pc' = [pc EXCEPT ![t] = "idle"]
    /\ cur' = [cur EXCEPT ![t] = NoParams]
    /\ entry_log' = [entry_log EXCEPT ![t] = <<>>]
    /\ UNCHANGED <<counter, config, active_region, already_instrumented,
                   inspected, injected, enabled, running, launched, lastSignal,
                   final_total, aborted,
                   dumpenv, sass_files, dump_errors, acquisitions>>

(* -------------------------- profiler signals --------------------------- *)
(* cuProfilerStart callback, entry (is_exit = 0) or exit (is_exit = 1) *)
ProfilerStart ==
    /\ Alive
    /\ \E t \in Threads : pc[t] = "idle"
    /\ \E is_exit \in {0, 1} :
          /\ is_exit = 1
          /\ active_region' = IF GatedMode THEN TRUE
                              ELSE active_region
          /\ lastSignal' = "start"
    /\ UNCHANGED <<kernel_id, tot_app_instrs, counter, config, mutex,
                   already_instrumented, inspected, injected, enabled, pc, cur,
                   running, launched, reports, final_total, aborted,
                   num_ctas, entry_log,
                   dumpenv, sass_files, dump_errors, acquisitions, obs,
                   dev_count, exit_log>>

ProfilerStop ==
    /\ Alive
    /\ \E t \in Threads : pc[t] = "idle"
    /\ \E is_exit \in {0, 1} :
          /\ is_exit = 1
          /\ active_region' = IF GatedMode THEN FALSE
                              ELSE active_region
          /\ lastSignal' = "stop"
    /\ UNCHANGED <<kernel_id, tot_app_instrs, counter, config, mutex,
                   already_instrumented, inspected, injected, enabled, pc, cur,
                   running, launched, reports, final_total, aborted,
                   num_ctas, entry_log,
                   dumpenv, sass_files, dump_errors, acquisitions, obs,
                   dev_count, exit_log>>

(* ---------------------------- termination ------------------------------ *)
(* The tool is unloaded when the application ends, after its threads have *)
(* returned from their driver calls.                                       *)
nvbit_at_term ==
    /\ Alive
    /\ \A t \in Threads : pc[t] = "idle"
    /\ final_total' = tot_app_instrs
    /\ UNCHANGED <<kernel_id, tot_app_instrs, counter, config, active_region,
                   mutex, already_instrumented, inspected, injected, enabled,
                   pc, cur, running, launched, reports, lastSignal, aborted,
                   num_ctas, entry_log,
                   dumpenv, sass_files, dump_errors, acquisitions, obs,
                   dev_count, exit_log>>

Next ==
    \/ \E t \in Threads : LaunchEntry(t)
    \/ \E t \in Threads : Acquire(t)
    \/ \E t \in Threads : EvalWindow(t)
    \/ \E t \in Threads : EnablePath(t)
    \/ \E t \in Threads : ResetCounter(t)
    \/ \E t \in Threads : Dispatch(t)
    \/ \E t \in Threads : DeviceRun(t)
    \/ \E t \in Threads : ExitSync(t)
    \/ \E t \in Threads : SyncFault(t)
    \/ \E t \in Threads : Report(t)
    \/ ProfilerStart
    \/ ProfilerStop
    \/ nvbit_at_term

Spec == Init /\ [][Next]_vars

(* ------------------ launches without faults or signals ------------------ *)
NextLaunches ==
    \/ \E t \in Threads : LaunchEntry(t)
    \/ \E t \in Threads : Acquire(t)
    \/ \E t \in Threads : EvalWindow(t)
    \/ \E t \in Threads : EnablePath(t)
    \/ \E t \in Threads : ResetCounter(t)
    \/ \E t \in Threads : Dispatch(t)
    \/ \E t \in Threads : DeviceRun(t)
    \/ \E t \in Threads : ExitSync(t)
    \/ \E t \in Threads : Report(t)
    \/ nvbit_at_term

(* Programs whose names are short, fill the name buffer or exceed it, and  *)
(* file systems that refuse some of the listing files.                     *)
DumpEnvs ==
    { <<ShortNames, DefaultInstrs, {}>>,
      <<ShortNames, DefaultInstrs, {"_Z2D1v.sass"}>>,
      <<ShortNames, DefaultInstrs, {"_Z2D2v.sass", "_Z2K2v.sass"}>>,
      <<BoundaryNames, DefaultInstrs, {}>>,
      <<TemplateNames, DefaultInstrs, {}>> }

InitDump == \E e \in DumpEnvs : InitState(DefaultConfig, e)

SpecDump == InitDump /\ [][NextLaunches]_vars

(* The dump of one kernel whose instruction list is drawn. *)
InitListing ==
    \E l \in InstrLists :
        InitState(DefaultConfig,
                  <<ShortNames, [DefaultInstrs EXCEPT !["K1"] = l], {}>>)

NextListing ==
    \/ \E t \in Threads : LaunchEntry(t)
    \/ \E t \in Threads : Acquire(t)

SpecListing == InitListing /\ [][NextListing]_vars

(* The steps of a callback that holds the lock. *)
CallbackStep(t) ==
    \/ EvalWindow(t)
    \/ EnablePath(t)
    \/ ResetCounter(t)
    \/ Dispatch(t)
    \/ ExitSync(t)
    \/ Report(t)

(* The thread inside a callback keeps running, the device finishes every   *)
(* kernel, and the mutex is granted fairly.                                *)
Fairness ==
    /\ WF_vars(\E t \in Threads : CallbackStep(t))
    /\ WF_vars(\E t \in Threads : DeviceRun(t))
    /\ \A t \in Threads : SF_vars(Acquire(t))

InitLive == InitState(DefaultConfig, DefaultEnv)

SpecLive == InitLive /\ [][NextLaunches]_vars /\ Fairness

(* =============================== claims ================================ *)
InFlight(t) == pc[t] \in {"window", "enable", "reset", "run", "sync", "report"}

(* C1: at most one launch is between its entry and its matching exit; the *)
(* thread of that launch holds the lock from acquisition until its exit   *)
(* has finished, and no other thread holds it.                            *)
C1_OneLaunchInFlight ==
    /\ \A t1, t2 \in Threads : InFlight(t1) /\ InFlight(t2) => t1 = t2
    /\ \A t \in Threads : InFlight(t) <=> mutex = t

(* A second launch entry waits at the lock while the first launch is at    *)
(* its exit synchronization.                                               *)
C1_Witness ==
    \E t1, t2 \in Threads : t1 # t2 /\ pc[t1] = "sync" /\ pc[t2] = "lock"

(* C2: the newly-instrumented branch has run exactly once for every       *)
(* function in the instrumented set and never for any other function.     *)
C2_InstrumentedOnce ==
    \A f \in Functions :
        inspected[f] = IF f \in already_instrumented THEN 1 ELSE 0

(* Both kernels have been launched; their shared callee D1 was processed  *)
(* once.                                                                   *)
C2_Witness ==
    /\ {"K1", "K2"} \subseteq already_instrumented
    /\ inspected["D1"] = 1
    /\ Len(reports) >= 2

(* C3: the k-th report carries ordinal k-1 and kernel_id equals the number *)
(* of reports printed.                                                     *)
C3_OrdinalsDense ==
    /\ kernel_id = Len(reports)
    /\ \A k \in 1..Len(reports) : reports[k].ordinal = k - 1

C3_Witness == Len(reports) >= 3 /\ reports[3].ordinal = 2

RECURSIVE SumCounts(_, _)
SumCounts(rs, k) == IF k = 0 THEN 0 ELSE SumCounts(rs, k - 1) + rs[k].count

(* C4: tot_app_instrs is the sum of the reported per-launch counts, the    *)
(* total in report k is the sum of the counts of reports 1..k, and the     *)
(* termination hook prints that sum.                                       *)
C4_RunningTotal ==
    /\ tot_app_instrs = SumCounts(reports, Len(reports))
    /\ \A k \in 1..Len(reports) : reports[k].total = SumCounts(reports, k)
    /\ final_total # -1 => final_total = SumCounts(reports, Len(reports))

C4_Witness ==
    /\ final_total = 2
    /\ Len(reports) >= 3
    /\ reports[1].count = 1 /\ reports[2].count = 0 /\ reports[3].count = 1

(* C5: in eager mode the window a launch entry has evaluated is            *)
(* start_grid_num <= kernel_id < end_grid_num, and the launch with ordinal *)
(* k runs instrumented exactly when k lies in that interval.               *)
C5_EagerWindow ==
    active_from_start # 0 =>
        /\ \A t \in Threads :
              pc[t] \in {"enable", "reset", "run", "sync", "report"} =>
                  active_region = (start_grid_num <= kernel_id
                                   /\ kernel_id < end_grid_num)
        /\ \A k \in 1..Len(launched) :
              (launched[k] = "instrumented")
                  <=> (start_grid_num <= k - 1 /\ k - 1 < end_grid_num)

(* Interval [1,2), three launches: only the one with ordinal 1 ran         *)
(* instrumented.                                                           *)
C5_Witness ==
    /\ active_from_start # 0
    /\ start_grid_num = 1 /\ end_grid_num = 2
    /\ launched = <<"original", "instrumented", "original">>

(* C6: in gated mode the window is open exactly when the last profiler     *)
(* signal delivered was a start; it is closed before any signal, and       *)
(* neither launches nor the grid interval move it.                         *)
C6_GatedWindow ==
    active_from_start = 0 => (active_region = (lastSignal = "start"))

(* Gated mode, a launch with ordinal 0 (outside [1,2)) is past its window  *)
(* step with the window open, and another one with the window closed after *)
(* a stop.                                                                 *)
C6_Witness ==
    /\ active_from_start = 0
    /\ Len(launched) >= 2
    /\ launched[1] = "instrumented"
    /\ launched[2] = "original"
    /\ lastSignal = "stop"

(* C7: the dispatch size computed at the exit of a launch is the product   *)
(* of that launch's three thread-block counts, for every launch variant.   *)
C7_DispatchSize ==
    [][\A t \in Threads :
          (pc[t] = "report" /\ pc'[t] = "idle") =>
              num_ctas' = cur[t].grid[1] * cur[t].grid[2] * cur[t].grid[3]]_vars

(* C8: the counter is reset, and is read at exit, only while no kernel is  *)
(* running on the device.                                                  *)
C8_CounterQuiescent ==
    \A t \in Threads : pc[t] \in {"reset", "report"} => running = {}

(* A later launch is about to reset a counter that still holds the count   *)
(* of the previous launch.                                                 *)
C8_Witness ==
    \E t \in Threads : pc[t] = "reset" /\ Len(reports) >= 1 /\ counter > 0

(* C9: every function in the instrumented set has had counting code        *)
(* requested for it.                                                       *)
C9_InjectionRequested == already_instrumented \subseteq injected

EntrySteps == <<"instrument", "window", "enable", "reset">>

(* C10: the entry steps run in the order instrument, window, enable,       *)
(* reset; when the entry returns all four are done, the kernel is in the   *)
(* instrumented set, its path is chosen and the counter is zero.           *)
C10_EntryOrder ==
    \A t \in Threads :
        /\ Len(entry_log[t]) <= Len(EntrySteps)
        /\ entry_log[t] = SubSeq(EntrySteps, 1, Len(entry_log[t]))
        /\ pc[t] = "run" =>
              /\ entry_log[t] = EntrySteps
              /\ cur[t].f \in already_instrumented
              /\ enabled[cur[t].f] # "unset"
              /\ counter = 0

(* An entry has returned after resetting a counter left non-zero by the    *)
(* previous launch.                                                        *)
C10_Witness ==
    \E t \in Threads :
        /\ pc[t] = "run"
        /\ Len(reports) >= 1
        /\ reports[Len(reports)].count > 0

(* C11: from the step that selects the code path of a launch until that    *)
(* launch's exit has finished, no step changes the selection made for the  *)
(* function of the launch.                                                 *)
C11_PathFixedInFlight ==
    [][\A t \in Threads :
          (pc[t] \in {"reset", "run", "sync", "report"}) =>
              enabled'[cur[t].f] = enabled[cur[t].f]]_vars

(* Gated mode: a stop signal arrived while a launch that was selected      *)
(* instrumented is still in flight.                                        *)
C11_Witness ==
    \E t \in Threads :
        /\ pc[t] \in {"run", "sync"}
        /\ active_from_start = 0
        /\ enabled[cur[t].f] = "instrumented"
        /\ lastSignal = "stop"
        /\ ~active_region

(* C12: the step on which the synchronization reports a fault leaves the   *)
(* total, the reports, the ordinal, the lock and every thread's position   *)
(* unchanged, and no step is taken after it.                               *)
C12_FaultAborts ==
    [][/\ ~aborted
       /\ aborted' => UNCHANGED <<tot_app_instrs, reports, kernel_id, counter,
                                  mutex, pc, final_total>>]_vars

(* The second launch faulted with a non-zero counter while another entry   *)
(* waits for the lock.                                                     *)
C12_Witness ==
    /\ aborted
    /\ counter > 0
    /\ Len(reports) = 1
    /\ tot_app_instrs = reports[1].count
    /\ \E t \in Threads : pc[t] = "lock"

(* C17: in eager mode a profiler signal changes nothing of the tool state. *)
C17_EagerIgnoresSignals ==
    [][(active_from_start # 0 /\ lastSignal' # lastSignal) =>
          UNCHANGED <<kernel_id, tot_app_instrs, counter, config,
                      active_region, mutex, already_instrumented, inspected,
                      injected, enabled, pc, cur, num_ctas, running, launched,
                      reports, final_total, aborted>>]_vars

(* Eager mode: a launch was dispatched instrumented after a stop signal.   *)
C17_Witness ==
    /\ active_from_start # 0
    /\ lastSignal = "stop"
    /\ \E t \in Threads : pc[t] = "sync" /\ active_region
    /\ Len(launched) >= 1
    /\ launched[Len(launched)] = "instrumented"

(* C14: a launch dispatched on the original path during which the device   *)
(* added nothing to the counter reports the count 0 and a running total    *)
(* equal to the total before it; in eager mode a launch whose ordinal is   *)
(* outside the window is dispatched on the original path.                  *)
C14_ClosedWindowCountsZero ==
    /\ Len(exit_log) = Len(reports)
    /\ \A i \in 1..Len(reports) :
          /\ (exit_log[i].path = "original" /\ exit_log[i].dev = 0) =>
                /\ reports[i].count = 0
                /\ reports[i].total = IF i = 1 THEN 0 ELSE reports[i - 1].total
          /\ (EagerMode /\ ~InWindow(reports[i].ordinal)) =>
                /\ launched[i] = "original"
                /\ exit_log[i].path = "original"

(* The first launch counted, the second ran outside the window, the device *)
(* added nothing and the launch reported 0 with the total unchanged.       *)
C14_Witness ==
    /\ Len(reports) = 2
    /\ reports[1].count > 0
    /\ exit_log[2].path = "original"
    /\ exit_log[2].dev = 0
    /\ reports[2].count = 0
    /\ reports[2].total = reports[1].total

(* C15: the report of the launch whose entry was the n-th to acquire the   *)
(* lock carries the ordinal n - 1.                                         *)
C15_OrdinalIsAcquisitionRank ==
    /\ Len(exit_log) = Len(reports)
    /\ \A i \in 1..Len(reports) :
          /\ exit_log[i].ticket >= 1
          /\ reports[i].ordinal = exit_log[i].ticket - 1

(* Two threads raced: the first acquisition has reported ordinal 0, the    *)
(* second holder of the lock is about to report and another entry waits.   *)
C15_Witness ==
    /\ Len(reports) = 1
    /\ reports[1].ordinal = 0
    /\ exit_log[1].ticket = 1
    /\ \E t1, t2 \in Threads :
          /\ t1 # t2
          /\ pc[t1] = "lock"
          /\ pc[t2] = "report"
          /\ obs[t2].ticket = 2

(* C16: from the acquisition of the lock to its own report a launch sees   *)
(* one value of kernel_id: the value at acquisition is the current one,    *)
(* the value read by the eager-mode window test is the current one, and    *)
(* the ordinal a report prints is the value its window test read.          *)
C16_KernelIdStableInFlight ==
    /\ \A t \in Threads :
          InFlight(t) =>
              /\ obs[t].at_lock = kernel_id
              /\ obs[t].seen \in {-1, kernel_id}
              /\ (EagerMode /\ pc[t] # "window") => obs[t].seen = kernel_id
    /\ Len(exit_log) = Len(reports)
    /\ \A i \in 1..Len(reports) :
          /\ EagerMode => exit_log[i].seen # -1
          /\ exit_log[i].seen # -1 => reports[i].ordinal = exit_log[i].seen

(* Eager mode, two threads: the second launch read kernel_id 1 at its      *)
(* window test while another entry was waiting, and reported ordinal 1.    *)
C16_Witness ==
    /\ EagerMode
    /\ Len(reports) = 2
    /\ exit_log[2].seen = 1
    /\ reports[2].ordinal = 1
    /\ \E t \in Threads : pc[t] = "lock"

Range(seq) == {seq[i] : i \in 1..Len(seq)}

(* C13: a function whose listing file cannot be opened is recorded as      *)
(* instrumented, processed once, has no file and one logged message; the   *)
(* other functions of the launch are processed and get their files; the    *)
(* entry goes through its remaining steps; and every report carries the    *)
(* dense ordinal, the count the device added and the running total.        *)
C13_DumpFailureOnlyLogged ==
    /\ \A f \in already_instrumented :
          LET name == SassFilename(func_name[f]) IN
          /\ inspected[f] = 1
          /\ name \in unopenable =>
                /\ \A file \in sass_files : file.name # name
                /\ name \in Range(dump_errors)
          /\ name \notin unopenable =>
                \E file \in sass_files : file.name = name
    /\ Len(dump_errors) =
           Cardinality({f \in already_instrumented :
                           SassFilename(func_name[f]) \in unopenable})
    /\ \A t \in Threads :
          /\ InFlight(t) =>
                Range(nvbit_get_related_functions(cur[t].f)) \cup {cur[t].f}
                    \subseteq already_instrumented
          /\ pc[t] \in {"run", "sync", "report"} =>
                entry_log[t] = <<"instrument", "window", "enable", "reset">>
    /\ Len(exit_log) = Len(reports)
    /\ \A i \in 1..Len(reports) :
          /\ reports[i].ordinal = i - 1
          /\ reports[i].count = exit_log[i].dev
          /\ reports[i].total =
                 reports[i].count + IF i = 1 THEN 0 ELSE reports[i - 1].total

(* The listing of the first function of a launch could not be opened; the  *)
(* kernel of that launch was dumped all the same and the launch reported   *)
(* what the device counted.                                                *)
C13_Witness ==
    /\ "_Z2D1v.sass" \in Range(dump_errors)
    /\ \E file \in sass_files : file.func = "K1"
    /\ Len(reports) >= 1
    /\ reports[1].count > 0
    /\ reports[1].total = reports[1].count

(* The name the listing file of f is said to have. *)
C19_FileName(f) ==
    LET name == func_name[f].s
        n == IF Len(name) < 200 THEN Len(name) ELSE 200
    IN SubSeq(name, 1, n) \o ".sass"

(* C19: every instrumented function whose file could be opened has a       *)
(* listing file of its own under the name made from its mangled name, and  *)
(* there are as many files as such functions.                              *)
C19_OwnListingFile ==
    LET dumped == {f \in already_instrumented : Fopen(C19_FileName(f))} IN
    /\ \A f \in dumped :
          \E file \in sass_files :
              file.name = C19_FileName(f) /\ file.func = f
    /\ Cardinality(sass_files) = Cardinality(dumped)

(* The location strings of the instructions of f, in list order. *)
C20_Locations(f) ==
    LET instrs == nvbit_get_instrs(f) IN
    [i \in 1..Len(instrs) |->
        SourceLocation(nvbit_get_line_info(f, instrs[i].offset))]

(* The position in lines of the i-th instruction line. *)
C20_Position(lines, i) ==
    CHOOSE k \in 1..Len(lines) :
        /\ lines[k][1] = "instr"
        /\ Cardinality({j \in 1..k : lines[j][1] = "instr"}) = i

C20_Headers(lines) == {k \in 1..Len(lines) : lines[k][1] = "source"}

C20_RunStarts(locs) ==
    {i \in 1..Len(locs) : i = 1 \/ locs[i] # locs[i - 1]}

(* C20: in every listing file the instruction lines are the instructions   *)
(* in list order; the line before an instruction line is a header exactly  *)
(* when the instruction is the first or its location differs from the      *)
(* previous one's, and the header then shows its location; an instruction  *)
(* without usable line information has the location "unknown"; the number  *)
(* of headers is the number of maximal runs of equal locations.            *)
C20_HeaderPerRun ==
    \A file \in sass_files :
        LET f == file.func
            lines == FileLines(file)
            instrs == nvbit_get_instrs(f)
            locs == C20_Locations(f)
            Body(k) == lines[k][1] \in {"source", "instr"}
        IN /\ SelectSeq(lines, LAMBDA l : l[1] = "instr")
                  = [i \in 1..Len(instrs) |-> InstrLine(instrs[i])]
           /\ \A k \in 3..Len(lines) : Body(k)
           /\ \A i \in 1..Len(instrs) :
                 LET k == C20_Position(lines, i)
                     info == nvbit_get_line_info(f, instrs[i].offset)
                 IN /\ (lines[k - 1][1] = "source") <=> (i \in C20_RunStarts(locs))
                    /\ lines[k - 1][1] = "source" => lines[k - 1][2] = locs[i]
                    /\ (~info.has \/ info.file = NULL \/ info.file = CStr(""))
                          => locs[i] = "unknown"
           /\ Cardinality(C20_Headers(lines)) = Cardinality(C20_RunStarts(locs))

(* A kernel of three instructions: two at one source line, then one        *)
(* without line information; its listing has two headers.                  *)
C20_Witness ==
    \E file \in sass_files :
        /\ file.func = "K1"
        /\ Len(func_instrs["K1"]) = 3
        /\ C20_Locations("K1")[1] = "src/a.cu:7"
        /\ C20_Locations("K1")[2] = "src/a.cu:7"
        /\ C20_Locations("K1")[3] = "unknown"
        /\ Cardinality(C20_Headers(FileLines(file))) = 2

(* C18: without faults, a launch that holds the lock eventually reports    *)
(* and releases it, and a launch entry waiting for the lock eventually     *)
(* acquires it.                                                            *)
C18_NoDeadlock ==
    \A t \in Threads :
        /\ InFlight(t) ~> (pc[t] = "idle" /\ mutex # t)
        /\ (pc[t] = "lock") ~> InFlight(t)

(* One launch has released the lock, the next holder is at its report and  *)
(* a third entry waits.                                                    *)
C18_Witness ==
    /\ Len(reports) = 1
    /\ mutex # 0
    /\ \E t1, t2 \in Threads :
          /\ t1 # t2 /\ pc[t1] = "lock" /\ pc[t2] = "sync" /\ running = {}

====
